---- MODULE Spec2Model ----
(***************************************************************************)
(* Project status transitions and completion snapshots of                  *)
(* src/router.py (complete_project, cancel_project, reopen_project and the *)
(* two snapshot writers), the score columns update_project_admin_info      *)
(* writes, and the score calculator and performance summary that read      *)
(* them.                                                                   *)
(*                                                                         *)
(* Every request runs in its own database session.  A session's writes are *)
(* pending (tx[s]) until db.commit(); db.rollback() discards all of them.  *)
(* The store is PostgreSQL at READ COMMITTED: a statement sees the         *)
(* committed rows plus the session's own pending writes, and an UPDATE or  *)
(* DELETE of a row another session has pending writes on waits for that    *)
(* session to end (the action is disabled until then).                     *)
(*                                                                         *)
(* Scores are fixed-point numbers in hundredths (725 is 7.25); binary      *)
(* floating point rounding is not modelled.                                *)
(***************************************************************************)
EXTENDS Integers, Sequences, FiniteSets, TLC

\* ---------------------------------------------------------------- bounds
\* requests served one after the other
MaxRequests == 3
\* requests served while others are in flight
MaxConcurrent == 2
\* requests served one after the other when summaries are drawn up as well
MaxReportRequests == 3
\* largest magnitude of a number handed to the truncation, in hundredths
MaxHundredths == 1300
\* largest magnitude of a score sum of the share percentage, in tenths
MaxSumTenths == 15
\* most evaluations of one employee for one project
MaxEvaluations == 3

\* ------------------------------------------------------------- constants
\* most rows of project_evaluations in a database whose detail view is read
MaxViewRows == 2
\* most get_project_detail requests in a run that only reads
MaxViews == 1

\* most requests in a run of the progress update endpoints
MaxUpdateRequests == 3

ROLE_ADMIN_ID == 6

Projects == {1, 2}
Sessions == {1, 2}
UserIds == {1, 2, 3}

\* users.role_id: user 1 is the administrator, 2 and 3 are ordinary staff
RoleOf(u) == IF u = 1 THEN ROLE_ADMIN_ID ELSE 3

\* projects.created_by
CreatedBy(p) == 2

NoWrite == "NoWrite"

\* the value of projects.status read for an id that has no row
NoProject == "NoProject"

\* the optional parts of the database schema the handlers probe for:
\*   snapTables   both project_completion_snapshots tables with their columns
\*   updateCount  snapshot items have the column update_count
\*   genTable     a generic snapshot table with project_id and a payload column
\*   scoreCols    projects has the score columns of the admin information
\*   cancelReasonCol  projects has the column cancel_reason
\* The table project_updates exists in every database.
SchemaChoices ==
    { [snapTables |-> TRUE,  updateCount |-> TRUE,  genTable |-> TRUE,
       scoreCols |-> TRUE,  cancelReasonCol |-> TRUE],
      [snapTables |-> FALSE, updateCount |-> FALSE, genTable |-> FALSE,
       scoreCols |-> FALSE, cancelReasonCol |-> FALSE] }

\* labels of the Postgres enum project_status; << >> when the lookup fails
EnumChoices ==
    { << >>,
      <<"PLANNING", "IN_PROGRESS", "ON_HOLD", "DONE", "CLOSED">> }

\* request bodies of complete_project: employee_id and score (hundredths);
\* 10.5 lies above the 0-10 scale, -1.0 below it
PayloadChoices ==
    { << >>,
      <<[employee_id |-> 0, score |-> 500],
        [employee_id |-> 2, score |-> 725],
        [employee_id |-> 3, score |-> 1050]>>,
      <<[employee_id |-> 3, score |-> -100]>> }

Range(f) == {f[i] : i \in DOMAIN f}

\* ------------------------------------------------------- pure functions
Min(S) == CHOOSE x \in S : \A y \in S : x <= y

_pick_status(vals, preferred, fallback) ==
    IF Len(vals) > 0
    THEN IF \E i \in DOMAIN preferred : preferred[i] \in Range(vals)
         THEN preferred[Min({i \in DOMAIN preferred : preferred[i] \in Range(vals)})]
         ELSE IF fallback \in Range(vals)
              THEN fallback
              ELSE vals[Len(vals)]
    ELSE fallback

_is_completed_status(st) ==
    st \in {"DONE", "COMPLETED", "COMPLETE", "FINISHED", "CLOSED"}

_is_admin_by_code(u) == RoleOf(u) = ROLE_ADMIN_ID

\* score: float = Field(..., ge=0)
ProjectCompleteParticipant(q) == q.score >= 0

\* the request body passes validation; a body that does not is answered 422
\* before the handler is entered
ProjectCompletePayload(parts) ==
    \A i \in DOMAIN parts : ProjectCompleteParticipant(parts[i])

\* variant: math.floor for negative numbers as well
_trunc_1_decimal_Floor(x) == (x \div 10) * 10

\* variant: the scaled number is divided by 100 instead of 10
_trunc_1_decimal_Div100(x) ==
    IF x >= 0 THEN x \div 10 ELSE -((-x) \div 10)

\* x truncated to one decimal toward zero, x in hundredths
_trunc_1_decimal(x) ==
    IF x >= 0 THEN (x \div 10) * 10 ELSE -(((-x) \div 10) * 10)

\* what a caller can hand to a numeric helper: a number (in hundredths), a
\* string that spells a number, text that spells none, None, nan, infinity
Num(v) == [kind |-> "num", v |-> v]
NumStr(v) == [kind |-> "numstr", v |-> v]
Text == [kind |-> "text", v |-> 0]
None == [kind |-> "none", v |-> 0]
NaN == [kind |-> "nan", v |-> 0]
Infinity == [kind |-> "inf", v |-> 0]

\* a string: a body with blanks before and after it
Str(l, b, t) == [kind |-> "str", lead |-> l, body |-> b, trail |-> t]

\* str.strip()
strip(x) == Str(0, x.body, 0)

\* the truth value of a string: false for the empty string
NonEmpty(x) == x.lead > 0 \/ x.body # "" \/ x.trail > 0

\* _trunc_1_decimal with its try/except: float(value) raises for text and
\* None, math.floor and math.ceil raise for nan and the infinities, and the
\* except clause returns the value as it came
_trunc_1_decimal_value(value) ==
    IF value.kind \in {"num", "numstr"}
    THEN Num(_trunc_1_decimal(value.v))
    ELSE value

\* allocatedScore as the summary derives it: (P / 10) * personalScore,
\* truncated to one decimal; P and the score are in hundredths
deriveAllocatedScore(P, score) ==
    IF P * score >= 0
    THEN ((P * score) \div 10000) * 10
    ELSE -(((-(P * score)) \div 10000) * 10)

\* the participants complete_project hands to the score snapshot (1916)
SnapshotParticipants(parts) ==
    [i \in DOMAIN parts |-> [user_id |-> parts[i].employee_id, score |-> parts[i].score]]

\* variant: no participant is skipped
safe_parts_NoSkip(parts) ==
    [i \in DOMAIN parts |->
        [user_id |-> parts[i].user_id,
         user_eval_score |-> parts[i].score,
         converted_score |-> parts[i].score]]

\* safe_parts: participants without a positive user id are skipped;
\* converted_score falls back to score when the caller passes none
safe_parts(parts) ==
    LET keep == SelectSeq(parts, LAMBDA q : q.user_id > 0)
    IN  [i \in DOMAIN keep |->
            [user_id |-> keep[i].user_id,
             user_eval_score |-> keep[i].score,
             converted_score |-> keep[i].score]]

RECURSIVE SumConv(_)
SumConv(sp) ==
    IF Len(sp) = 0 THEN 0
    ELSE sp[1].converted_score + SumConv(Tail(sp))

\* variant: total is accumulated before the uid <= 0 check skips the entry
SnapshotTotal_BeforeSkip(parts) ==
    SumConv([i \in DOMAIN parts |-> [converted_score |-> parts[i].score]])

\* total: the sum of converted_score over safe_parts, stored as it is
SnapshotTotal(parts) == SumConv(safe_parts(parts))

\* ----------------------------------------------------------------- state
VARIABLES
    enumVals,     \* labels of project_status in this database
    schema,       \* which optional tables this database has
    status,       \* projects.status, committed
    evals,        \* project_evaluations rows, committed
    snaps,        \* project_completion_snapshots rows, committed
    items,        \* project_completion_snapshot_items rows, committed
    gens,         \* rows of the generic project snapshot table, committed
    nextSnapId,   \* sequence behind project_completion_snapshots.id
    nreq,         \* requests received so far
    pc,           \* position of each session's request handler
    req,          \* the request a session is serving
    tx,           \* pending (uncommitted) writes of each session
    resp,         \* response of the request
    h,            \* what happened in the request so far (observation only)
    comps,        \* the score columns of projects, committed
    report,       \* the row of the performance summary drawn up last
    calc,         \* a helper function, its argument and its results
    cancel_reason,     \* projects.cancel_reason, committed
    updates,           \* project_updates rows of each project by id, committed
    has_unread_update, \* projects.has_unread_update, committed
    detail        \* the response of get_project_detail served last

vars == <<enumVals, schema, status, evals, snaps, items, gens, nextSnapId,
          nreq, pc, req, tx, resp, h, comps, report, calc,
          cancel_reason, updates, has_unread_update, detail>>

\* the score columns of a project nobody has filled in yet
ScoreColumns ==
    {"contract_amount", "project_period_days", "difficulty", "progress_step",
     "participant_count", "profit_rate", "sales_score", "work_speed",
     "internal_score", "external_score"}

NoScores == [c \in ScoreColumns |-> None]

EmptyTx ==
    [stW |-> NoWrite, aborted |-> FALSE,
     evalDel |-> {}, evalIns |-> {},
     snapDeact |-> {}, snapIns |-> {}, snapDel |-> {},
     itemIns |-> {}, itemDel |-> {},
     genIns |-> {}, compW |-> NoScores,
     reasonW |-> << >>,       \* projects.cancel_reason of the request's project
     flagW |-> << >>,         \* projects.has_unread_update of that project
     updIns |-> << >>,        \* rows inserted into project_updates for it
     updSet |-> << >>]        \* content written to rows of it: <<id, content>>

NoReq == [op |-> "none", pid |-> 0, user |-> 0, participants |-> << >>,
          new_status |-> NoWrite, was_completed |-> FALSE, payload |-> NoScores,
          reason |-> None,
          content |-> None, update_id |-> 0,   \* of the progress update endpoints
          was_unread |-> FALSE]                \* the flag when the request arrived

NoReport == [at |-> -1, pid |-> 0, score_source |-> "none", project_final_score |-> 0]

NoCall == [fn |-> "none", arg |-> << >>, out |-> << >>]

NoDetail == [at |-> -1, pid |-> 0, viewer |-> 0, code |-> "none",
             cancel_reason |-> None, participant_scores |-> << >>,
             participant_count |-> 0, has_unread_update |-> FALSE]

EmptyH ==
    [snapFail |-> FALSE,      \* a snapshot statement failed and was swallowed
     raised |-> FALSE,        \* a statement outside the snapshot code raised
     statusCommitted |-> FALSE, \* the status UPDATE has been committed
     interleaved |-> FALSE,   \* deactivated inside another completion's sequence
     called |-> FALSE,        \* createSnapshot was entered
     ret |-> -1,              \* its result: -1 not returned, 0 None, else id
     preSnaps |-> {}, preItems |-> {}]  \* the project's rows at its entry

\* ------------------------------------------------------ session's view
ViewStatus(s, p) ==
    IF req[s].pid = p /\ tx[s].stW # NoWrite THEN tx[s].stW ELSE status[p]

ViewEvals(s) == (evals \ tx[s].evalDel) \cup tx[s].evalIns

ViewSnaps(s) ==
    { IF r.id \in tx[s].snapDeact THEN [r EXCEPT !.is_active = FALSE] ELSE r :
        r \in {q \in snaps : q.id \notin tx[s].snapDel} }
    \cup tx[s].snapIns

ViewItems(s) == (items \ tx[s].itemDel) \cup tx[s].itemIns

\* rows other sessions hold row locks on
ProjectLockedByOther(s, p) ==
    \E t \in Sessions \ {s} : req[t].pid = p /\ tx[t].stW # NoWrite

SnapLockedByOther(s, ids) ==
    \E t \in Sessions \ {s} : (tx[t].snapDeact \cup tx[t].snapDel) \cap ids # {}

EvalLockedByOther(s, rows) ==
    \E t \in Sessions \ {s} : tx[t].evalDel \cap rows # {}

ItemLockedByOther(s, rows) ==
    \E t \in Sessions \ {s} : tx[t].itemDel \cap rows # {}

\* ------------------------------------------------- commit and rollback
\* the rows of a project after the pending content UPDATEs
Written(rows, sets) ==
    [i \in DOMAIN rows |->
        IF \E k \in DOMAIN sets : sets[k][1] = i
        THEN sets[CHOOSE k \in DOMAIN sets : sets[k][1] = i][2]
        ELSE rows[i]]

\* db.commit(): the pending writes become the committed rows.  A commit of
\* an aborted transaction ends it without applying anything.
Commit(s) ==
    LET w == tx[s] IN
    IF w.aborted
    THEN UNCHANGED <<status, evals, snaps, items, gens,
                     cancel_reason, updates, has_unread_update>>
    ELSE /\ status' = IF w.stW # NoWrite /\ status[req[s].pid] # NoProject
                      THEN [status EXCEPT ![req[s].pid] = w.stW]
                      ELSE status
         /\ cancel_reason' = IF w.reasonW # << >> /\ status[req[s].pid] # NoProject
                             THEN [cancel_reason EXCEPT ![req[s].pid] = w.reasonW[1]]
                             ELSE cancel_reason
         /\ has_unread_update' = IF w.flagW # << >> /\ status[req[s].pid] # NoProject
                                 THEN [has_unread_update EXCEPT ![req[s].pid] = w.flagW[1]]
                                 ELSE has_unread_update
         /\ updates' = IF w.updIns # << >> \/ w.updSet # << >>
                       THEN [updates EXCEPT ![req[s].pid] = Written(@, w.updSet) \o w.updIns]
                       ELSE updates
         /\ evals' = (evals \ w.evalDel) \cup w.evalIns
         /\ snaps' = { IF r.id \in w.snapDeact
                       THEN [r EXCEPT !.is_active = FALSE] ELSE r :
                         r \in {q \in snaps : q.id \notin w.snapDel} }
                     \cup w.snapIns
         /\ items' = (items \ w.itemDel) \cup w.itemIns
         /\ gens' = gens \cup w.genIns

\* db.rollback(): every pending write of the session is discarded
Rollback(s) == EmptyTx

\* ------------------------------------------------------------------ Init
\* two projects in progress, nothing else stored, no request yet
EmptyDatabase ==
    /\ status = [p \in Projects |-> "IN_PROGRESS"]
    /\ evals = {}
    /\ snaps = {}
    /\ items = {}
    /\ gens = {}
    /\ nextSnapId = 1
    /\ nreq = 0
    /\ pc = [s \in Sessions |-> "idle"]
    /\ req = [s \in Sessions |-> NoReq]
    /\ tx = [s \in Sessions |-> EmptyTx]
    /\ resp = [s \in Sessions |-> "none"]
    /\ h = [s \in Sessions |-> EmptyH]
    /\ comps = [p \in Projects |-> NoScores]
    /\ report = NoReport
    /\ calc = NoCall
    /\ cancel_reason = [p \in Projects |-> None]
    /\ updates = [p \in Projects |-> << >>]
    /\ has_unread_update = [p \in Projects |-> FALSE]
    /\ detail = NoDetail

Init ==
    /\ enumVals \in EnumChoices
    /\ schema \in SchemaChoices
    /\ EmptyDatabase

DbUnchanged == UNCHANGED <<status, evals, snaps, items, gens,
                           cancel_reason, updates, has_unread_update>>
Fixed == UNCHANGED <<enumVals, schema, comps, report, calc, detail>>

\* ------------------------------------------------------ request arrival
\* int(created_by or 0) of SELECT created_by FROM projects WHERE id = :id
CreatedByOf(p) == IF status[p] = NoProject THEN 0 ELSE CreatedBy(p)

\* variant: every logged-in user passes the permission check
Authorized_AnyLogin(u, p) == u \in UserIds

Authorized(u, p) == _is_admin_by_code(u) \/ CreatedByOf(p) = u

\* the permission check shared by the three handlers: 403 unless the caller
\* is an administrator or the project's creator
Receive(s, r) ==
    /\ pc[s] \in {"idle", "done"}
    /\ nreq' = nreq + 1
    /\ req' = [req EXCEPT ![s] = r]
    /\ h' = [h EXCEPT ![s] = EmptyH]
    /\ tx' = [tx EXCEPT ![s] = EmptyTx]
    /\ IF ~ProjectCompletePayload(r.participants)
       THEN /\ pc' = [pc EXCEPT ![s] = "done"]
            /\ resp' = [resp EXCEPT ![s] = "422"]
       ELSE IF Authorized(r.user, r.pid)
       THEN /\ pc' = [pc EXCEPT ![s] =
                         CASE r.op = "complete" -> "c_status"
                           [] r.op = "cancel"   -> "x_status"
                           [] OTHER             -> "r_status"]
            /\ resp' = [resp EXCEPT ![s] = "none"]
       ELSE /\ pc' = [pc EXCEPT ![s] = "done"]
            /\ resp' = [resp EXCEPT ![s] = "403"]
    /\ DbUnchanged /\ Fixed /\ UNCHANGED nextSnapId

StartComplete(s) ==
    \E p \in Projects, u \in UserIds, parts \in PayloadChoices :
        Receive(s, [op |-> "complete", pid |-> p, user |-> u,
                    participants |-> parts,
                    new_status |-> _pick_status(enumVals,
                        <<"COMPLETED", "DONE", "FINISHED", "COMPLETE", "CLOSED">>, "DONE"),
                    was_completed |-> _is_completed_status(status[p]),
                    payload |-> NoScores, reason |-> None])

\* request bodies of cancel_project: reason: str = Field(..., min_length=1)
CancelReasons == {Str(1, "budget", 2)}

StartCancel(s) ==
    \E p \in Projects, u \in UserIds, r \in CancelReasons :
        Receive(s, [op |-> "cancel", pid |-> p, user |-> u,
                    participants |-> << >>,
                    new_status |-> _pick_status(enumVals,
                        <<"CANCELLED", "CANCELED", "CANCEL", "ABORTED", "STOPPED">>, "CANCELLED"),
                    was_completed |-> FALSE, payload |-> NoScores,
                    reason |-> r])

StartReopen(s) ==
    \E p \in Projects, u \in UserIds :
        Receive(s, [op |-> "reopen", pid |-> p, user |-> u,
                    participants |-> << >>,
                    new_status |-> "IN_PROGRESS",
                    was_completed |-> FALSE, payload |-> NoScores,
                    reason |-> None])

\* UPDATE projects SET status = :new_status WHERE id = :id
UpdateStatus(s, next) ==
    /\ ~ProjectLockedByOther(s, req[s].pid)
    /\ tx' = [tx EXCEPT ![s].stW = req[s].new_status]
    /\ pc' = [pc EXCEPT ![s] = next]
    /\ DbUnchanged /\ Fixed /\ UNCHANGED <<nextSnapId, nreq, req, resp, h>>

\* a statement outside every try block fails: the exception leaves the
\* handler, the session is closed and its pending writes are lost
RequestRaises(s) ==
    /\ pc[s] \in {"c_status", "c_evals", "x_status", "r_status", "r_evals"}
    /\ tx' = [tx EXCEPT ![s] = Rollback(s)]
    /\ resp' = [resp EXCEPT ![s] = "500"]
    /\ h' = [h EXCEPT ![s].raised = TRUE]
    /\ pc' = [pc EXCEPT ![s] = "done"]
    /\ DbUnchanged /\ Fixed /\ UNCHANGED <<nextSnapId, nreq, req>>

\* ------------------------------------------------------ complete_project
\* rows of project p as the session sees them
SnapsOf(S, p) == {r \in S : r.project_id = p}
ItemsOf(I, S, p) == {i \in I : \E r \in SnapsOf(S, p) : r.id = i.snapshot_id}

CompleteStatus(s) ==
    /\ pc[s] = "c_status"
    /\ UpdateStatus(s, "c_evals")

\* the rows complete_project inserts into project_evaluations
EvalRows(r) ==
    { [project_id |-> r.pid, idx |-> i,
       user_id |-> r.participants[i].employee_id,
       score |-> r.participants[i].score] : i \in DOMAIN r.participants }

\* DELETE FROM project_evaluations WHERE project_id = :id, then one INSERT
\* per participant; afterwards the score snapshot is entered
CompleteEvals(s) ==
    LET p == req[s].pid
        old == {e \in ViewEvals(s) : e.project_id = p}
    IN
    /\ pc[s] = "c_evals"
    /\ ~EvalLockedByOther(s, old)
    /\ tx' = [tx EXCEPT ![s].evalDel = @ \cup (old \cap evals),
                         ![s].evalIns = (@ \ old) \cup EvalRows(req[s])]
    /\ h' = [h EXCEPT ![s].called = TRUE,
                       ![s].ret = IF schema.snapTables THEN -1 ELSE 0,
                       ![s].preSnaps = SnapsOf(ViewSnaps(s), p),
                       ![s].preItems = ItemsOf(ViewItems(s), ViewSnaps(s), p)]
    /\ pc' = [pc EXCEPT ![s] =
                 IF ~schema.snapTables THEN "c_generic"
                 ELSE IF schema.updateCount THEN "c_count" ELSE "c_deact"]
    /\ DbUnchanged /\ Fixed /\ UNCHANGED <<nextSnapId, nreq, req, resp>>

\* SELECT ... FROM project_updates ... GROUP BY created_by succeeds
CountUpdates(s) ==
    /\ pc[s] = "c_count"
    /\ pc' = [pc EXCEPT ![s] = "c_deact"]
    /\ DbUnchanged /\ Fixed /\ UNCHANGED <<nextSnapId, nreq, req, resp, tx, h>>

\* the same SELECT fails: the except clause keeps an empty map and does not
\* roll back, so the transaction stays aborted
CountUpdatesFail(s) ==
    /\ pc[s] = "c_count"
    /\ tx' = [tx EXCEPT ![s].aborted = TRUE]
    /\ pc' = [pc EXCEPT ![s] = "c_deact"]
    /\ DbUnchanged /\ Fixed /\ UNCHANGED <<nextSnapId, nreq, req, resp, h>>

\* another completion of the same project stands between its own
\* deactivation and its commit
Interleaves(s) ==
    \E t \in Sessions \ {s} :
        /\ req[t].op = "complete" /\ req[t].pid = req[s].pid
        /\ pc[t] \in {"c_insert", "c_items", "c_generic", "c_commit"}

\* 1) UPDATE project_completion_snapshots SET is_active = false
\*    WHERE project_id = :pid AND is_active = true
Deactivate(s) ==
    LET p == req[s].pid
        hit == {r.id : r \in {q \in ViewSnaps(s) : q.project_id = p /\ q.is_active}}
    IN
    /\ pc[s] = "c_deact"
    /\ ~tx[s].aborted
    /\ ~SnapLockedByOther(s, hit)
    /\ tx' = [tx EXCEPT
                 ![s].snapDeact = @ \cup (hit \cap {r.id : r \in snaps}),
                 ![s].snapIns = { IF r.id \in hit THEN [r EXCEPT !.is_active = FALSE]
                                  ELSE r : r \in @ }]
    /\ h' = [h EXCEPT ![s].interleaved = Interleaves(s)]
    /\ pc' = [pc EXCEPT ![s] = "c_insert"]
    /\ DbUnchanged /\ Fixed /\ UNCHANGED <<nextSnapId, nreq, req, resp>>

\* the deactivation fails: rollback, then the insert goes ahead all the same
DeactivateFail(s) ==
    /\ pc[s] = "c_deact"
    /\ tx' = [tx EXCEPT ![s] = Rollback(s)]
    /\ h' = [h EXCEPT ![s].snapFail = TRUE, ![s].interleaved = Interleaves(s)]
    /\ pc' = [pc EXCEPT ![s] = "c_insert"]
    /\ DbUnchanged /\ Fixed /\ UNCHANGED <<nextSnapId, nreq, req, resp>>

\* 2) INSERT INTO project_completion_snapshots (..., is_active)
\*    VALUES (:pid, :total, ..., true) RETURNING id
InsertSnapshot(s) ==
    LET parts == SnapshotParticipants(req[s].participants) IN
    /\ pc[s] = "c_insert"
    /\ ~tx[s].aborted
    /\ tx' = [tx EXCEPT ![s].snapIns = @ \cup
                 { [id |-> nextSnapId, project_id |-> req[s].pid,
                    final_project_score |-> SnapshotTotal(parts),
                    is_active |-> TRUE] }]
    /\ nextSnapId' = nextSnapId + 1
    /\ pc' = [pc EXCEPT ![s] = "c_items"]
    /\ DbUnchanged /\ Fixed /\ UNCHANGED <<nreq, req, resp, h>>

\* variant: the failed snapshot INSERT is not caught and leaves the handler
InsertSnapshotFail_Raises(s) ==
    /\ pc[s] = "c_insert"
    /\ tx' = [tx EXCEPT ![s] = Rollback(s)]
    /\ h' = [h EXCEPT ![s].snapFail = TRUE, ![s].ret = 0]
    /\ resp' = [resp EXCEPT ![s] = "500"]
    /\ pc' = [pc EXCEPT ![s] = "done"]
    /\ DbUnchanged /\ Fixed /\ UNCHANGED <<nextSnapId, nreq, req>>

\* the snapshot INSERT fails: rollback and return None
InsertSnapshotFail(s) ==
    /\ pc[s] = "c_insert"
    /\ tx' = [tx EXCEPT ![s] = Rollback(s)]
    /\ h' = [h EXCEPT ![s].snapFail = TRUE, ![s].ret = 0]
    /\ pc' = [pc EXCEPT ![s] = "c_generic"]
    /\ DbUnchanged /\ Fixed /\ UNCHANGED <<nextSnapId, nreq, req, resp>>

\* the snapshot the session has just inserted
OwnSnapshotId(s) ==
    CHOOSE i \in {r.id : r \in tx[s].snapIns} :
        \A j \in {r.id : r \in tx[s].snapIns} : j <= i

\* 3) one INSERT INTO project_completion_snapshot_items per safe_parts entry
InsertItems(s) ==
    LET sp == safe_parts(SnapshotParticipants(req[s].participants))
        sid == OwnSnapshotId(s)
    IN
    /\ pc[s] = "c_items"
    /\ tx' = [tx EXCEPT ![s].itemIns = @ \cup
                 { [snapshot_id |-> sid, idx |-> i,
                    user_id |-> sp[i].user_id,
                    user_eval_score |-> sp[i].user_eval_score,
                    converted_score |-> sp[i].converted_score] : i \in DOMAIN sp }]
    /\ h' = [h EXCEPT ![s].ret = sid]
    /\ pc' = [pc EXCEPT ![s] = "c_generic"]
    /\ DbUnchanged /\ Fixed /\ UNCHANGED <<nextSnapId, nreq, req, resp>>

\* variant: the failed item INSERT returns None without db.rollback()
InsertItemsFail_NoRollback(s) ==
    /\ pc[s] = "c_items"
    /\ Len(safe_parts(SnapshotParticipants(req[s].participants))) > 0
    /\ h' = [h EXCEPT ![s].snapFail = TRUE, ![s].ret = 0]
    /\ pc' = [pc EXCEPT ![s] = "c_generic"]
    /\ DbUnchanged /\ Fixed /\ UNCHANGED <<nextSnapId, nreq, req, resp, tx>>

\* an item INSERT fails: rollback and return None
InsertItemsFail(s) ==
    /\ pc[s] = "c_items"
    /\ Len(safe_parts(SnapshotParticipants(req[s].participants))) > 0
    /\ tx' = [tx EXCEPT ![s] = Rollback(s)]
    /\ h' = [h EXCEPT ![s].snapFail = TRUE, ![s].ret = 0]
    /\ pc' = [pc EXCEPT ![s] = "c_generic"]
    /\ DbUnchanged /\ Fixed /\ UNCHANGED <<nextSnapId, nreq, req, resp>>

\* _save_project_snapshot: no candidate table, nothing is written
GenericSkip(s) ==
    /\ pc[s] = "c_generic"
    /\ ~schema.genTable
    /\ pc' = [pc EXCEPT ![s] = "c_commit"]
    /\ DbUnchanged /\ Fixed /\ UNCHANGED <<nextSnapId, nreq, req, resp, tx, h>>

\* _save_project_snapshot: INSERT of the project row as the session sees it
GenericInsert(s) ==
    /\ pc[s] = "c_generic"
    /\ schema.genTable
    /\ tx' = [tx EXCEPT ![s].genIns = @ \cup
                 { [project_id |-> req[s].pid,
                    status |-> ViewStatus(s, req[s].pid),
                    action |-> IF req[s].was_completed THEN "RECOMPLETE" ELSE "COMPLETE"] }]
    /\ pc' = [pc EXCEPT ![s] = "c_commit"]
    /\ DbUnchanged /\ Fixed /\ UNCHANGED <<nextSnapId, nreq, req, resp, h>>

\* _save_project_snapshot: the INSERT fails, rollback, return
GenericInsertFail(s) ==
    /\ pc[s] = "c_generic"
    /\ schema.genTable
    /\ tx' = [tx EXCEPT ![s] = Rollback(s)]
    /\ h' = [h EXCEPT ![s].snapFail = TRUE]
    /\ pc' = [pc EXCEPT ![s] = "c_commit"]
    /\ DbUnchanged /\ Fixed /\ UNCHANGED <<nextSnapId, nreq, req, resp>>

\* db.commit(); return {"ok": True}
CompleteCommit(s) ==
    /\ pc[s] = "c_commit"
    /\ Commit(s)
    /\ h' = [h EXCEPT ![s].statusCommitted = (tx[s].stW # NoWrite)]
    /\ tx' = [tx EXCEPT ![s] = EmptyTx]
    /\ resp' = [resp EXCEPT ![s] = "ok"]
    /\ pc' = [pc EXCEPT ![s] = "done"]
    /\ Fixed /\ UNCHANGED <<nextSnapId, nreq, req>>

\* -------------------------------------------------------- cancel_project
\* UPDATE projects SET status = :new_status, cancel_reason = :r where the
\* column exists, SET status = :new_status alone where it does not
CancelStatus(s) ==
    /\ pc[s] = "x_status"
    /\ ~ProjectLockedByOther(s, req[s].pid)
    /\ tx' = [tx EXCEPT ![s].stW = req[s].new_status,
                         ![s].reasonW = IF schema.cancelReasonCol
                                        THEN <<req[s].reason>> ELSE @]
    /\ pc' = [pc EXCEPT ![s] = IF schema.cancelReasonCol THEN "x_commit" ELSE "x_reason"]
    /\ DbUnchanged /\ Fixed /\ UNCHANGED <<nextSnapId, nreq, req, resp, h>>

\* the mark before the reason in the entry that keeps a cancel reason (in
\* the source the Korean for "cancel reason" in square brackets)
CancelReasonPrefix == "[cancel reason]"

\* INSERT INTO project_updates ... content = '[cancel reason] ' + reason
CancelReasonEntry(s) ==
    /\ pc[s] = "x_reason"
    /\ tx' = [tx EXCEPT ![s].updIns =
                 Append(@, [prefix |-> CancelReasonPrefix, text |-> req[s].reason])]
    /\ pc' = [pc EXCEPT ![s] = "x_commit"]
    /\ DbUnchanged /\ Fixed /\ UNCHANGED <<nextSnapId, nreq, req, resp, h>>

\* the INSERT fails: except Exception: pass, the transaction stays aborted
CancelReasonEntryFail(s) ==
    /\ pc[s] = "x_reason"
    /\ tx' = [tx EXCEPT ![s].aborted = TRUE]
    /\ pc' = [pc EXCEPT ![s] = "x_commit"]
    /\ DbUnchanged /\ Fixed /\ UNCHANGED <<nextSnapId, nreq, req, resp, h>>

CancelCommit(s) ==
    /\ pc[s] = "x_commit"
    /\ Commit(s)
    /\ h' = [h EXCEPT ![s].statusCommitted = ~tx[s].aborted]
    /\ tx' = [tx EXCEPT ![s] = EmptyTx]
    /\ resp' = [resp EXCEPT ![s] = "ok"]
    /\ pc' = [pc EXCEPT ![s] = "done"]
    /\ Fixed /\ UNCHANGED <<nextSnapId, nreq, req>>

\* -------------------------------------------------------- reopen_project
\* UPDATE projects SET status = 'IN_PROGRESS' [, cancel_reason = NULL]
ReopenStatus(s) ==
    /\ pc[s] = "r_status"
    /\ ~ProjectLockedByOther(s, req[s].pid)
    /\ tx' = [tx EXCEPT ![s].stW = req[s].new_status,
                         ![s].reasonW = IF schema.cancelReasonCol THEN <<None>> ELSE @]
    /\ pc' = [pc EXCEPT ![s] = "r_commit"]
    /\ DbUnchanged /\ Fixed /\ UNCHANGED <<nextSnapId, nreq, req, resp, h>>

\* db.commit() right after the status UPDATE
ReopenCommitStatus(s) ==
    /\ pc[s] = "r_commit"
    /\ Commit(s)
    /\ h' = [h EXCEPT ![s].statusCommitted = TRUE]
    /\ tx' = [tx EXCEPT ![s] = EmptyTx]
    /\ pc' = [pc EXCEPT ![s] = "r_evals"]
    /\ Fixed /\ UNCHANGED <<nextSnapId, nreq, req, resp>>

\* DELETE FROM project_evaluations WHERE project_id = :id
ReopenEvals(s) ==
    LET p == req[s].pid
        old == {e \in ViewEvals(s) : e.project_id = p}
    IN
    /\ pc[s] = "r_evals"
    /\ ~EvalLockedByOther(s, old)
    /\ tx' = [tx EXCEPT ![s].evalDel = @ \cup (old \cap evals),
                         ![s].evalIns = @ \ old]
    /\ h' = [h EXCEPT ![s].preSnaps = SnapsOf(ViewSnaps(s), p),
                       ![s].preItems = ItemsOf(ViewItems(s), ViewSnaps(s), p)]
    /\ pc' = [pc EXCEPT ![s] = IF schema.snapTables THEN "r_items" ELSE "r_commit2"]
    /\ DbUnchanged /\ Fixed /\ UNCHANGED <<nextSnapId, nreq, req, resp>>

\* variant: the items DELETE is left out
PurgeItems_Skipped(s) ==
    /\ pc[s] = "r_items"
    /\ pc' = [pc EXCEPT ![s] = "r_snaps"]
    /\ DbUnchanged /\ Fixed /\ UNCHANGED <<nextSnapId, nreq, req, resp, tx, h>>

\* DELETE FROM project_completion_snapshot_items WHERE snapshot_id IN
\*   (SELECT id FROM project_completion_snapshots WHERE project_id = :pid)
PurgeItems(s) ==
    LET old == ItemsOf(ViewItems(s), ViewSnaps(s), req[s].pid) IN
    /\ pc[s] = "r_items"
    /\ ~ItemLockedByOther(s, old)
    /\ tx' = [tx EXCEPT ![s].itemDel = @ \cup (old \cap items),
                         ![s].itemIns = @ \ old]
    /\ pc' = [pc EXCEPT ![s] = "r_snaps"]
    /\ DbUnchanged /\ Fixed /\ UNCHANGED <<nextSnapId, nreq, req, resp, h>>

\* variant: the snapshots DELETE also filters on is_active = true
PurgeSnaps_OnlyActive(s) ==
    LET old == {r \in SnapsOf(ViewSnaps(s), req[s].pid) : r.is_active}
        ids == {r.id : r \in old}
    IN
    /\ pc[s] = "r_snaps"
    /\ ~SnapLockedByOther(s, ids)
    /\ tx' = [tx EXCEPT ![s].snapDel = @ \cup (ids \cap {r.id : r \in snaps}),
                         ![s].snapIns = @ \ old]
    /\ pc' = [pc EXCEPT ![s] = "r_commit2"]
    /\ DbUnchanged /\ Fixed /\ UNCHANGED <<nextSnapId, nreq, req, resp, h>>

\* DELETE FROM project_completion_snapshots WHERE project_id = :pid
PurgeSnaps(s) ==
    LET old == SnapsOf(ViewSnaps(s), req[s].pid)
        ids == {r.id : r \in old}
    IN
    /\ pc[s] = "r_snaps"
    /\ ~SnapLockedByOther(s, ids)
    /\ tx' = [tx EXCEPT ![s].snapDel = @ \cup (ids \cap {r.id : r \in snaps}),
                         ![s].snapIns = @ \ old]
    /\ pc' = [pc EXCEPT ![s] = "r_commit2"]
    /\ DbUnchanged /\ Fixed /\ UNCHANGED <<nextSnapId, nreq, req, resp, h>>

\* either DELETE fails: rollback, the error is swallowed
PurgeFail(s) ==
    /\ pc[s] \in {"r_items", "r_snaps"}
    /\ tx' = [tx EXCEPT ![s] = Rollback(s)]
    /\ h' = [h EXCEPT ![s].snapFail = TRUE]
    /\ pc' = [pc EXCEPT ![s] = "r_commit2"]
    /\ DbUnchanged /\ Fixed /\ UNCHANGED <<nextSnapId, nreq, req, resp>>

\* the closing db.commit(); return {"ok": True}
ReopenCommit(s) ==
    /\ pc[s] = "r_commit2"
    /\ Commit(s)
    /\ tx' = [tx EXCEPT ![s] = EmptyTx]
    /\ resp' = [resp EXCEPT ![s] = "ok"]
    /\ pc' = [pc EXCEPT ![s] = "done"]
    /\ Fixed /\ UNCHANGED <<nextSnapId, nreq, req, h>>

\* ----------------------------------------------- update_project_admin_info
\* request bodies: the fields a body leaves out are None
AdminInfoChoices ==
    { [NoScores EXCEPT !["profit_rate"] = Num(-1237)],
      [NoScores EXCEPT !["profit_rate"] = Num(1237),
                       !["sales_score"] = Num(200),
                       !["difficulty"] = Num(126),
                       !["contract_amount"] = Num(5000000)] }

\* _require_admin: 403 unless the caller's role is the administrator's
StartAdminInfo(s) ==
    \E p \in Projects, u \in UserIds, body \in AdminInfoChoices :
        /\ pc[s] \in {"idle", "done"}
        /\ nreq' = nreq + 1
        /\ req' = [req EXCEPT ![s] =
                      [op |-> "admin_info", pid |-> p, user |-> u,
                       participants |-> << >>, new_status |-> NoWrite,
                       was_completed |-> FALSE, payload |-> body,
                       reason |-> None]]
        /\ h' = [h EXCEPT ![s] = EmptyH]
        /\ tx' = [tx EXCEPT ![s] = EmptyTx]
        /\ IF RoleOf(u) = ROLE_ADMIN_ID
           THEN /\ pc' = [pc EXCEPT ![s] = "a_update"]
                /\ resp' = [resp EXCEPT ![s] = "none"]
           ELSE /\ pc' = [pc EXCEPT ![s] = "done"]
                /\ resp' = [resp EXCEPT ![s] = "403"]
        /\ DbUnchanged /\ Fixed /\ UNCHANGED nextSnapId

\* the value the handler stores for a column: profit_rate goes through
\* math.floor(x * 10) / 10, every other field is stored as it was sent
AdminInfoValue(col, val) ==
    IF col = "profit_rate" /\ val.kind = "num"
    THEN Num((val.v \div 10) * 10)
    ELSE val

\* _set_if_exists for every field, then
\* UPDATE projects SET <fields>, updated_at = NOW() WHERE id = :id
UpdateAdminFields(s) ==
    /\ pc[s] = "a_update"
    /\ ~ProjectLockedByOther(s, req[s].pid)
    /\ tx' = [tx EXCEPT ![s].compW =
                 [c \in ScoreColumns |->
                     IF schema.scoreCols /\ req[s].payload[c] # None
                     THEN AdminInfoValue(c, req[s].payload[c])
                     ELSE None]]
    /\ pc' = [pc EXCEPT ![s] = "a_finance"]
    /\ DbUnchanged /\ Fixed /\ UNCHANGED <<nextSnapId, nreq, req, resp, h>>

\* the UPDATE raises: the exception leaves the handler
UpdateAdminFieldsFail(s) ==
    /\ pc[s] = "a_update"
    /\ tx' = [tx EXCEPT ![s] = Rollback(s)]
    /\ resp' = [resp EXCEPT ![s] = "500"]
    /\ h' = [h EXCEPT ![s].raised = TRUE]
    /\ pc' = [pc EXCEPT ![s] = "done"]
    /\ DbUnchanged /\ Fixed /\ UNCHANGED <<nextSnapId, nreq, req>>

\* INSERT INTO project_admin_finance ... ON CONFLICT DO UPDATE succeeds;
\* db.commit(); return {"ok": True}
SaveAdminFinance(s) ==
    LET w == tx[s].compW IN
    /\ pc[s] = "a_finance"
    /\ comps' = [comps EXCEPT ![req[s].pid] =
                    [c \in ScoreColumns |-> IF w[c] # None THEN w[c] ELSE @[c]]]
    /\ tx' = [tx EXCEPT ![s] = EmptyTx]
    /\ resp' = [resp EXCEPT ![s] = "ok"]
    /\ pc' = [pc EXCEPT ![s] = "done"]
    /\ DbUnchanged
    /\ UNCHANGED <<enumVals, schema, report, calc, detail, nextSnapId, nreq, req, h>>

\* the finance INSERT fails: db.rollback() and 400
SaveAdminFinanceFail(s) ==
    /\ pc[s] = "a_finance"
    /\ tx' = [tx EXCEPT ![s] = Rollback(s)]
    /\ resp' = [resp EXCEPT ![s] = "400"]
    /\ pc' = [pc EXCEPT ![s] = "done"]
    /\ DbUnchanged /\ Fixed /\ UNCHANGED <<nextSnapId, nreq, req, h>>

AdminStep(s) ==
    \/ UpdateAdminFields(s)
    \/ UpdateAdminFieldsFail(s)
    \/ SaveAdminFinance(s)
    \/ SaveAdminFinanceFail(s)

\* ------------------------------------------------------------------ Next
\* a request arrives at a session that is serving none
Start(s) ==
    \/ StartComplete(s)
    \/ StartCancel(s)
    \/ StartReopen(s)

\* the next statement of the request the session is serving
Step(s) ==
    \/ CompleteStatus(s)
    \/ CompleteEvals(s)
    \/ CountUpdates(s)
    \/ CountUpdatesFail(s)
    \/ Deactivate(s)
    \/ DeactivateFail(s)
    \/ InsertSnapshot(s)
    \/ InsertSnapshotFail(s)
    \/ InsertItems(s)
    \/ InsertItemsFail(s)
    \/ GenericSkip(s)
    \/ GenericInsert(s)
    \/ GenericInsertFail(s)
    \/ CompleteCommit(s)
    \/ CancelStatus(s)
    \/ CancelReasonEntry(s)
    \/ CancelReasonEntryFail(s)
    \/ CancelCommit(s)
    \/ ReopenStatus(s)
    \/ ReopenCommitStatus(s)
    \/ ReopenEvals(s)
    \/ PurgeItems(s)
    \/ PurgeSnaps(s)
    \/ PurgeFail(s)
    \/ ReopenCommit(s)
    \/ RequestRaises(s)

\* one request at a time, each served to its response before the next
Next ==
    \/ nreq < MaxRequests /\ Start(1)
    \/ Step(1)

Spec == Init /\ [][Next]_vars

\* requests of different sessions interleave statement by statement
ConcNext ==
    \E s \in Sessions :
        \/ nreq < MaxConcurrent /\ Start(s)
        \/ Step(s)

ConcSpec == Init /\ [][ConcNext]_vars

\* ------------------------------------------------------ score calculator
\* the nine components of the final project score, in the order they are
\* summed; contractAmount is a component of the project but not of the sum
SummedComponents ==
    <<"salesScore", "projectPeriodDays", "difficulty", "progressStep",
      "workSpeed", "internalScore", "externalScore", "participantCount",
      "profitRateScore">>

ComponentNames == Range(SummedComponents) \cup {"contractAmount"}

\* a component that is absent or not a number counts as 0
componentValue(c) == IF c.kind = "num" THEN c.v ELSE 0

RECURSIVE sumComponents(_, _)
sumComponents(components, names) ==
    IF names = << >> THEN 0
    ELSE componentValue(components[Head(names)])
           + sumComponents(components, Tail(names))

\* variant: the contract amount is added to the sum as a tenth component
computeFinalScore_WithContract(components) ==
    _trunc_1_decimal(sumComponents(components, SummedComponents)
                       + componentValue(components["contractAmount"]))

computeFinalScore(components) ==
    _trunc_1_decimal(sumComponents(components, SummedComponents))

\* -------------------------------------------------- performance aggregator
\* variant: among equal timestamps the evaluation read last is kept
laterEvaluation_LastReadOnTie(kept, e) ==
    IF e.ts >= kept.ts THEN e ELSE kept

\* of two evaluations the one with the later timestamp, on a tie the one
\* with the higher identifier
laterEvaluation(kept, e) ==
    IF e.ts > kept.ts \/ (e.ts = kept.ts /\ e.id > kept.id) THEN e ELSE kept

\* the evaluation used for an employee and a project: the rows are gone
\* through in the order they were read
RECURSIVE latestEvaluation(_)
latestEvaluation(rows) ==
    IF Len(rows) = 1 THEN rows[1]
    ELSE laterEvaluation(latestEvaluation(SubSeq(rows, 1, Len(rows) - 1)),
                         rows[Len(rows)])

\* variant: only a sum of exactly zero is guarded against
employeeSharePercent_ZeroGuard(allocatedSum, projectSum) ==
    IF projectSum = 0 THEN 0
    ELSE LET n == IF projectSum > 0 THEN allocatedSum ELSE -allocatedSum
             d == IF projectSum > 0 THEN projectSum ELSE -projectSum
         IN  IF n >= 0 THEN ((n * 1000) \div d) * 10
             ELSE -((((-n) * 1000) \div d) * 10)

\* (allocatedSum / projectSum) * 100 truncated to one decimal, 0 when the
\* project sum is not positive; sums in hundredths, the result in
\* hundredths of a percent
employeeSharePercent(allocatedSum, projectSum) ==
    IF projectSum <= 0 THEN 0
    ELSE IF allocatedSum >= 0
         THEN ((allocatedSum * 1000) \div projectSum) * 10
         ELSE -((((-allocatedSum) * 1000) \div projectSum) * 10)

\* the column of projects that holds a component
ComponentColumn(n) ==
    CASE n = "salesScore"        -> "sales_score"
      [] n = "projectPeriodDays" -> "project_period_days"
      [] n = "difficulty"        -> "difficulty"
      [] n = "progressStep"      -> "progress_step"
      [] n = "workSpeed"         -> "work_speed"
      [] n = "internalScore"     -> "internal_score"
      [] n = "externalScore"     -> "external_score"
      [] n = "participantCount"  -> "participant_count"
      [] n = "profitRateScore"   -> "profit_rate"
      [] OTHER                   -> "contract_amount"

\* schema adapter: a component whose column this database lacks is absent
resolveComponents(p) ==
    [n \in ComponentNames |->
        IF schema.scoreCols THEN comps[p][ComponentColumn(n)] ELSE None]

\* the active snapshots of a project as a report sees them (committed rows)
getActiveSnapshot(p) == {r \in snaps : r.project_id = p /\ r.is_active}

\* the row of project p in a performance summary whose period and employee
\* select p: the frozen score when an active snapshot exists, the live score
\* otherwise.  Which row is taken when several are active is not specified.
DrawUpSummary ==
    \E p \in Projects :
        /\ pc[1] \in {"idle", "done"}
        /\ nreq' = nreq + 1
        /\ \/ \E r \in getActiveSnapshot(p) :
                 report' = [at |-> nreq + 1, pid |-> p, score_source |-> "SNAPSHOT",
                            project_final_score |-> r.final_project_score]
           \/ /\ getActiveSnapshot(p) = {}
              /\ report' = [at |-> nreq + 1, pid |-> p, score_source |-> "LIVE",
                            project_final_score |-> computeFinalScore(resolveComponents(p))]
        /\ DbUnchanged
        /\ UNCHANGED <<enumVals, schema, comps, calc, detail, nextSnapId, pc, req, tx, resp, h>>

\* ---------------------------------------------------------- delete_project
\* the rows of project p in the tables that refer to projects
RowsOf(p) ==
    [evals |-> {e \in evals : e.project_id = p},
     snaps |-> SnapsOf(snaps, p),
     items |-> ItemsOf(items, snaps, p),
     gens  |-> {g \in gens : g.project_id = p}]

\* 403 unless role_id is the administrator's; the estimates of the project are detached,
\* DELETE FROM projects WHERE id = :pid, db.commit().  The foreign keys of
\* the other tables are not part of the repository: the DELETE leaves their
\* rows alone, or takes them along (ON DELETE CASCADE), or is refused.
DeleteProject(s) ==
    \E p \in Projects, u \in UserIds :
        /\ pc[s] \in {"idle", "done"}
        /\ nreq' = nreq + 1
        /\ req' = [req EXCEPT ![s] = [NoReq EXCEPT !.op = "delete", !.pid = p, !.user = u]]
        /\ h' = [h EXCEPT ![s] = EmptyH]
        /\ tx' = [tx EXCEPT ![s] = EmptyTx]
        /\ pc' = [pc EXCEPT ![s] = "done"]
        /\ \/ /\ RoleOf(u) # ROLE_ADMIN_ID
              /\ resp' = [resp EXCEPT ![s] = "403"]
              /\ DbUnchanged
           \/ /\ RoleOf(u) = ROLE_ADMIN_ID
              /\ resp' = [resp EXCEPT ![s] = "500"]
              /\ DbUnchanged
           \/ /\ RoleOf(u) = ROLE_ADMIN_ID
              /\ resp' = [resp EXCEPT ![s] = "ok"]
              /\ status' = [status EXCEPT ![p] = NoProject]
              /\ cancel_reason' = [cancel_reason EXCEPT ![p] = None]
              /\ has_unread_update' = [has_unread_update EXCEPT ![p] = FALSE]
              /\ \/ UNCHANGED <<evals, snaps, items, gens, updates>>
                 \/ /\ evals' = evals \ RowsOf(p).evals
                    /\ snaps' = snaps \ RowsOf(p).snaps
                    /\ items' = items \ RowsOf(p).items
                    /\ gens' = gens \ RowsOf(p).gens
                    /\ updates' = [updates EXCEPT ![p] = << >>]
        /\ Fixed /\ UNCHANGED nextSnapId

\* ------------------------------------------------ progress update endpoints
\* request bodies: content, which the handlers strip
UpdateContents == {Str(1, "progress", 0)}

\* the content of the marker admin_ack_project records (in the source the
\* Korean for "seen by the administrator" in square brackets)
AckMarker == "[admin ack]"

\* _can_edit_project: an administrator or the project's creator
_can_edit_project(u, p) ==
    _is_admin_by_code(u) \/ RoleOf(u) = ROLE_ADMIN_ID \/ CreatedByOf(p) = u

\* a request of the update endpoints arrives and is answered with code
\* at once, or enters the handler at position next
ReceiveUpdate(s, r, code, next) ==
    /\ pc[s] \in {"idle", "done"}
    /\ nreq' = nreq + 1
    /\ req' = [req EXCEPT ![s] = r]
    /\ h' = [h EXCEPT ![s] = EmptyH]
    /\ tx' = [tx EXCEPT ![s] = EmptyTx]
    /\ pc' = [pc EXCEPT ![s] = IF code = "none" THEN next ELSE "done"]
    /\ resp' = [resp EXCEPT ![s] = code]
    /\ DbUnchanged /\ Fixed /\ UNCHANGED nextSnapId

\* create_project_update: 404 when the project has no row
StartCreateUpdate(s) ==
    \E p \in Projects, u \in UserIds, c \in UpdateContents :
        ReceiveUpdate(s, [NoReq EXCEPT !.op = "create_update", !.pid = p, !.user = u,
                                       !.content = c,
                                       !.was_unread = has_unread_update[p]],
                      IF status[p] = NoProject THEN "404" ELSE "none", "u_insert")

\* INSERT INTO project_updates ... content = payload.content.strip()
CreateUpdateInsert(s) ==
    /\ pc[s] = "u_insert"
    /\ tx' = [tx EXCEPT ![s].updIns =
                 Append(@, [prefix |-> "", text |-> strip(req[s].content)])]
    /\ pc' = [pc EXCEPT ![s] = "u_flag"]
    /\ DbUnchanged /\ Fixed /\ UNCHANGED <<nextSnapId, nreq, req, resp, h>>

\* UPDATE projects SET has_unread_update = true WHERE id = :id
CreateUpdateFlag(s) ==
    /\ pc[s] = "u_flag"
    /\ ~ProjectLockedByOther(s, req[s].pid)
    /\ tx' = [tx EXCEPT ![s].flagW = <<TRUE>>]
    /\ pc' = [pc EXCEPT ![s] = "u_commit"]
    /\ DbUnchanged /\ Fixed /\ UNCHANGED <<nextSnapId, nreq, req, resp, h>>

\* db.commit(); return {"id": ..., "ok": True}
CreateUpdateCommit(s) ==
    /\ pc[s] = "u_commit"
    /\ Commit(s)
    /\ tx' = [tx EXCEPT ![s] = EmptyTx]
    /\ resp' = [resp EXCEPT ![s] = "ok"]
    /\ pc' = [pc EXCEPT ![s] = "done"]
    /\ Fixed /\ UNCHANGED <<nextSnapId, nreq, req, h>>

\* a statement of create_project_update or the flag UPDATE of
\* admin_ack_project fails: none of them is inside a try block
UpdateRaises(s) ==
    /\ pc[s] \in {"u_insert", "u_flag", "k_flag"}
    /\ tx' = [tx EXCEPT ![s] = Rollback(s)]
    /\ resp' = [resp EXCEPT ![s] = "500"]
    /\ h' = [h EXCEPT ![s].raised = TRUE]
    /\ pc' = [pc EXCEPT ![s] = "done"]
    /\ DbUnchanged /\ Fixed /\ UNCHANGED <<nextSnapId, nreq, req>>

\* update_project_update: 404 without the project, 403 for a caller who may
\* not edit it, 404 when the project has no update with that id
StartEditUpdate(s) ==
    \E p \in Projects, u \in UserIds, c \in UpdateContents, i \in 1..MaxUpdateRequests :
        ReceiveUpdate(s, [NoReq EXCEPT !.op = "edit_update", !.pid = p, !.user = u,
                                       !.content = c, !.update_id = i,
                                       !.was_unread = has_unread_update[p]],
                      IF status[p] = NoProject THEN "404"
                      ELSE IF ~_can_edit_project(u, p) THEN "403"
                      ELSE IF i \notin DOMAIN updates[p] THEN "404"
                      ELSE "none",
                      "e_content")

\* UPDATE project_updates SET content = :content ... WHERE id = :uid
EditContent(s) ==
    /\ pc[s] = "e_content"
    /\ tx' = [tx EXCEPT ![s].updSet =
                 Append(@, <<req[s].update_id,
                             [prefix |-> "", text |-> strip(req[s].content)]>>)]
    /\ pc' = [pc EXCEPT ![s] = "e_flag"]
    /\ DbUnchanged /\ Fixed /\ UNCHANGED <<nextSnapId, nreq, req, resp, h>>

\* both forms of the UPDATE fail: db.rollback() and 500
EditContentFail(s) ==
    /\ pc[s] = "e_content"
    /\ tx' = [tx EXCEPT ![s] = Rollback(s)]
    /\ resp' = [resp EXCEPT ![s] = "500"]
    /\ h' = [h EXCEPT ![s].raised = TRUE]
    /\ pc' = [pc EXCEPT ![s] = "done"]
    /\ DbUnchanged /\ Fixed /\ UNCHANGED <<nextSnapId, nreq, req>>

\* try: UPDATE projects SET has_unread_update = true WHERE id = :id
EditFlag(s) ==
    /\ pc[s] = "e_flag"
    /\ ~ProjectLockedByOther(s, req[s].pid)
    /\ tx' = [tx EXCEPT ![s].flagW = <<TRUE>>]
    /\ pc' = [pc EXCEPT ![s] = "e_commit"]
    /\ DbUnchanged /\ Fixed /\ UNCHANGED <<nextSnapId, nreq, req, resp, h>>

\* except Exception: pass; the failed statement leaves the transaction
\* aborted
EditFlagFail(s) ==
    /\ pc[s] = "e_flag"
    /\ tx' = [tx EXCEPT ![s].aborted = TRUE]
    /\ pc' = [pc EXCEPT ![s] = "e_commit"]
    /\ DbUnchanged /\ Fixed /\ UNCHANGED <<nextSnapId, nreq, req, resp, h>>

\* db.commit(); return {"ok": True, "id": update_id}
EditCommit(s) ==
    /\ pc[s] = "e_commit"
    /\ Commit(s)
    /\ tx' = [tx EXCEPT ![s] = EmptyTx]
    /\ resp' = [resp EXCEPT ![s] = "ok"]
    /\ pc' = [pc EXCEPT ![s] = "done"]
    /\ Fixed /\ UNCHANGED <<nextSnapId, nreq, req, h>>

\* admin_ack_project: _require_admin (403), then 404 without the project
StartAck(s) ==
    \E p \in Projects, u \in UserIds :
        ReceiveUpdate(s, [NoReq EXCEPT !.op = "admin_ack", !.pid = p, !.user = u,
                                       !.was_unread = has_unread_update[p]],
                      IF RoleOf(u) # ROLE_ADMIN_ID THEN "403"
                      ELSE IF status[p] = NoProject THEN "404"
                      ELSE "none",
                      "k_flag")

\* 1) UPDATE projects SET has_unread_update = false WHERE id = :id
AckFlag(s) ==
    /\ pc[s] = "k_flag"
    /\ ~ProjectLockedByOther(s, req[s].pid)
    /\ tx' = [tx EXCEPT ![s].flagW = <<FALSE>>]
    /\ pc' = [pc EXCEPT ![s] = "k_marker"]
    /\ DbUnchanged /\ Fixed /\ UNCHANGED <<nextSnapId, nreq, req, resp, h>>

\* 2) INSERT INTO project_updates ... content = the marker
AckMarkerInsert(s) ==
    /\ pc[s] = "k_marker"
    /\ tx' = [tx EXCEPT ![s].updIns =
                 Append(@, [prefix |-> AckMarker, text |-> Str(0, "", 0)])]
    /\ pc' = [pc EXCEPT ![s] = "k_commit"]
    /\ DbUnchanged /\ Fixed /\ UNCHANGED <<nextSnapId, nreq, req, resp, h>>

\* the INSERT fails: db.rollback() and 500
AckMarkerFail(s) ==
    /\ pc[s] = "k_marker"
    /\ tx' = [tx EXCEPT ![s] = Rollback(s)]
    /\ resp' = [resp EXCEPT ![s] = "500"]
    /\ h' = [h EXCEPT ![s].raised = TRUE]
    /\ pc' = [pc EXCEPT ![s] = "done"]
    /\ DbUnchanged /\ Fixed /\ UNCHANGED <<nextSnapId, nreq, req>>

\* db.commit(); return {"ok": True}
AckCommit(s) ==
    /\ pc[s] = "k_commit"
    /\ Commit(s)
    /\ tx' = [tx EXCEPT ![s] = EmptyTx]
    /\ resp' = [resp EXCEPT ![s] = "ok"]
    /\ pc' = [pc EXCEPT ![s] = "done"]
    /\ Fixed /\ UNCHANGED <<nextSnapId, nreq, req, h>>

UpdateStep(s) ==
    \/ CreateUpdateInsert(s)
    \/ CreateUpdateFlag(s)
    \/ CreateUpdateCommit(s)
    \/ UpdateRaises(s)
    \/ EditContent(s)
    \/ EditContentFail(s)
    \/ EditFlag(s)
    \/ EditFlagFail(s)
    \/ EditCommit(s)
    \/ AckFlag(s)
    \/ AckMarkerInsert(s)
    \/ AckMarkerFail(s)
    \/ AckCommit(s)

\* the statements of cancel_project and reopen_project
CancelReopenStep(s) ==
    \/ CancelStatus(s)
    \/ CancelReasonEntry(s)
    \/ CancelReasonEntryFail(s)
    \/ CancelCommit(s)
    \/ ReopenStatus(s)
    \/ ReopenCommitStatus(s)
    \/ ReopenEvals(s)
    \/ PurgeItems(s)
    \/ PurgeSnaps(s)
    \/ PurgeFail(s)
    \/ ReopenCommit(s)
    \/ RequestRaises(s)

\* ------------------------------------------------------ get_project_detail
\* the value of projects.status of a row whose status is NULL
NoStatus == "NoStatus"

\* the rows of a set of evaluation rows ORDER BY user_id (rows of one user
\* in the order they were inserted)
RECURSIVE OrderByUserId(_)
OrderByUserId(rows) ==
    IF rows = {} THEN << >>
    ELSE LET first == CHOOSE r \in rows : \A q \in rows :
                          \/ r.user_id < q.user_id
                          \/ r.user_id = q.user_id /\ r.idx <= q.idx
         IN <<first>> \o OrderByUserId(rows \ {first})

\* variant: the score is handed out whoever asks
_get_participant_scores_ScoresForAll(E, p, can_view_scores, project_status) ==
    LET rows == OrderByUserId({e \in E : e.project_id = p}) IN
    IF project_status # NoStatus /\ ~_is_completed_status(project_status)
    THEN << >>
    ELSE [i \in DOMAIN rows |->
             [employee_id |-> rows[i].user_id, score |-> Num(rows[i].score)]]

\* _get_participant_scores on the evaluation rows E: nothing for a status
\* that is given and not a completed one; otherwise one entry per row, the
\* score only for a caller who may see scores
_get_participant_scores(E, p, can_view_scores, project_status) ==
    LET rows == OrderByUserId({e \in E : e.project_id = p}) IN
    IF project_status # NoStatus /\ ~_is_completed_status(project_status)
    THEN << >>
    ELSE [i \in DOMAIN rows |->
             [employee_id |-> rows[i].user_id,
              score |-> IF can_view_scores THEN Num(rows[i].score) ELSE None]]

\* the latest row of project_updates whose content is the cancel-reason
\* mark, a blank and anything: its index, 0 when there is none
LatestReasonEntry(p) ==
    LET hits == {i \in DOMAIN updates[p] : updates[p][i].prefix = CancelReasonPrefix}
    IN IF hits = {} THEN 0 ELSE CHOOSE i \in hits : \A j \in hits : j <= i

\* _get_cancel_reason: the column when it exists and holds a non-empty
\* string, the latest reason entry otherwise
_get_cancel_reason(p) ==
    LET v == cancel_reason[p]
        k == LatestReasonEntry(p)
    IN
    IF schema.cancelReasonCol /\ v.kind = "str" /\ NonEmpty(v)
    THEN IF NonEmpty(strip(v)) THEN strip(v) ELSE None
    ELSE IF k = 0 THEN None
    ELSE IF updates[p][k].text.body = ""
         THEN Str(0, CancelReasonPrefix, 0)
         ELSE strip(updates[p][k].text)

\* can_view_scores: the administrator or the project's creator
can_view_scores(u, p) == _is_admin_by_code(u) \/ CreatedBy(p) = u

\* the response of get_project_detail to viewer u for the existing project
\* p, the evaluation rows being E
ProjectDetailOut(u, p, E) ==
    LET scores == _get_participant_scores(E, p, can_view_scores(u, p), status[p]) IN
    [pid |-> p, viewer |-> u, code |-> "ok",
     cancel_reason |-> _get_cancel_reason(p),
     participant_scores |-> scores,
     participant_count |-> Len(scores),
     has_unread_update |-> has_unread_update[p]]

\* GET /{project_id}: 404 when the project has no row
GetProjectDetail ==
    \E p \in Projects, u \in UserIds :
        /\ pc[1] \in {"idle", "done"}
        /\ nreq' = nreq + 1
        /\ detail' = IF status[p] = NoProject
                     THEN [NoDetail EXCEPT !.at = nreq + 1, !.pid = p, !.viewer = u,
                                           !.code = "404"]
                     ELSE [at |-> nreq + 1] @@ ProjectDetailOut(u, p, evals)
        /\ DbUnchanged
        /\ UNCHANGED <<enumVals, schema, comps, report, calc, nextSnapId,
                       pc, req, tx, resp, h>>

\* -------------------------------------------------------------- ViewSpec
\* get_project_detail on a database drawn from bounded sets
ViewStatuses == {"PLANNING", "IN_PROGRESS", "ON_HOLD", "DONE", "CLOSED",
                 "CANCELLED", NoStatus}

ViewScores == {0, 725}

\* project_evaluations: up to MaxViewRows rows
ViewEvaluations ==
    { { [project_id |-> f[i][1], idx |-> i, user_id |-> f[i][2], score |-> f[i][3]] :
          i \in DOMAIN f } :
        f \in UNION { [1..n -> Projects \X {2, 3} \X ViewScores] : n \in 0..MaxViewRows } }

ViewInit ==
    /\ enumVals = <<"PLANNING", "IN_PROGRESS", "ON_HOLD", "DONE", "CLOSED">>
    /\ schema = [snapTables |-> TRUE, updateCount |-> TRUE, genTable |-> TRUE,
                 scoreCols |-> TRUE, cancelReasonCol |-> TRUE]
    /\ status \in [Projects -> ViewStatuses]
    /\ evals \in ViewEvaluations
    /\ snaps = {}
    /\ items = {}
    /\ gens = {}
    /\ nextSnapId = 1
    /\ nreq = 0
    /\ pc = [s \in Sessions |-> "idle"]
    /\ req = [s \in Sessions |-> NoReq]
    /\ tx = [s \in Sessions |-> EmptyTx]
    /\ resp = [s \in Sessions |-> "none"]
    /\ h = [s \in Sessions |-> EmptyH]
    /\ comps = [p \in Projects |-> NoScores]
    /\ report = NoReport
    /\ calc = NoCall
    /\ cancel_reason = [p \in Projects |-> None]
    /\ updates = [p \in Projects |-> << >>]
    /\ has_unread_update = [p \in Projects |-> FALSE]
    /\ detail = NoDetail

ViewNext == nreq < MaxViews /\ GetProjectDetail

ViewSpec == ViewInit /\ [][ViewNext]_vars

\* ------------------------------------------------------------ UpdateSpec
\* progress updates, the administrator's acknowledgement, cancel, reopen
\* and the detail view, one request at a time
UpdateNext ==
    \/ nreq < MaxUpdateRequests /\ StartCreateUpdate(1)
    \/ nreq < MaxUpdateRequests /\ StartEditUpdate(1)
    \/ nreq < MaxUpdateRequests /\ StartAck(1)
    \/ nreq < MaxUpdateRequests /\ StartCancel(1)
    \/ nreq < MaxUpdateRequests /\ StartReopen(1)
    \/ nreq < MaxUpdateRequests /\ GetProjectDetail
    \/ UpdateStep(1)
    \/ CancelReopenStep(1)

UpdateSpec == Init /\ [][UpdateNext]_vars

\* ------------------------------------------------------------ ReportSpec
\* a project_status enum with none of the labels the handlers look for
OddEnums == { <<"PLANNING", "IN_PROGRESS", "ON_HOLD">> }

\* a database with the generic snapshot table but without the tables of
\* the completion score snapshot
MixedSchemas ==
    { [snapTables |-> FALSE, updateCount |-> FALSE, genTable |-> TRUE,
       scoreCols |-> TRUE, cancelReasonCol |-> FALSE] }

ReportInit ==
    /\ enumVals \in EnumChoices \cup OddEnums
    /\ schema \in SchemaChoices \cup MixedSchemas
    /\ EmptyDatabase

\* status changes, deletions, admin information and summaries, one request
\* at a time
ReportNext ==
    \/ nreq < MaxReportRequests /\ Start(1)
    \/ nreq < MaxReportRequests /\ StartAdminInfo(1)
    \/ nreq < MaxReportRequests /\ DrawUpSummary
    \/ nreq < MaxReportRequests /\ DeleteProject(1)
    \/ Step(1)
    \/ AdminStep(1)

ReportSpec == ReportInit /\ [][ReportNext]_vars

\* ------------------------------------------- helpers on drawn arguments
TruncArgs ==
    {Num(v) : v \in -MaxHundredths..MaxHundredths}
    \cup {NumStr(-1237), NumStr(1237), Text, None, NaN, Infinity}

\* the components of the project of the worked example: sum 10.26
ExampleComponents ==
    [n \in ComponentNames |->
        CASE n = "salesScore"        -> Num(200)
          [] n = "projectPeriodDays" -> Num(300)
          [] n = "difficulty"        -> Num(100)
          [] n = "progressStep"      -> Num(100)
          [] n = "participantCount"  -> Num(200)
          [] n = "profitRateScore"   -> Num(126)
          [] n = "contractAmount"    -> Num(5000000)
          [] OTHER                   -> Num(0)]

ComponentArgs ==
    {ExampleComponents}
    \cup { [n \in ComponentNames |->
               IF n = "contractAmount" THEN k ELSE f[n]] :
             f \in [Range(SummedComponents) -> {None, Text, Num(126)}],
             k \in {None, Num(5000000)} }

\* evaluations of one employee for one project in the order they are read:
\* distinct identifiers, timestamps that may tie
EvaluationRows ==
    { [id |-> i, ts |-> t, score |-> 250 * i] : i \in 1..MaxEvaluations, t \in 1..2 }

EvaluationArgs ==
    { rows \in UNION {[1..n -> EvaluationRows] : n \in 1..MaxEvaluations} :
        \A i, j \in DOMAIN rows : i # j => rows[i].id # rows[j].id }

ShareArgs ==
    { [allocatedSum |-> 10 * a, projectSum |-> 10 * b] :
        a, b \in -MaxSumTenths..MaxSumTenths }

CalcInit ==
    /\ enumVals = <<"PLANNING", "IN_PROGRESS", "ON_HOLD", "DONE", "CLOSED">>
    /\ schema = [snapTables |-> TRUE, updateCount |-> TRUE, genTable |-> TRUE,
                 scoreCols |-> TRUE, cancelReasonCol |-> TRUE]
    /\ status = [p \in Projects |-> "IN_PROGRESS"]
    /\ evals = {}
    /\ snaps = {}
    /\ items = {}
    /\ gens = {}
    /\ nextSnapId = 1
    /\ nreq = 0
    /\ pc = [s \in Sessions |-> "idle"]
    /\ req = [s \in Sessions |-> NoReq]
    /\ tx = [s \in Sessions |-> EmptyTx]
    /\ resp = [s \in Sessions |-> "none"]
    /\ h = [s \in Sessions |-> EmptyH]
    /\ comps = [p \in Projects |-> NoScores]
    /\ report = NoReport
    /\ cancel_reason = [p \in Projects |-> None]
    /\ updates = [p \in Projects |-> << >>]
    /\ has_unread_update = [p \in Projects |-> FALSE]
    /\ detail = NoDetail
    /\ calc \in {[fn |-> "_trunc_1_decimal", arg |-> a, out |-> << >>] : a \in TruncArgs}
          \cup {[fn |-> "computeFinalScore", arg |-> a, out |-> << >>] : a \in ComponentArgs}
          \cup {[fn |-> "latestEvaluation", arg |-> a, out |-> << >>] : a \in EvaluationArgs}
          \cup {[fn |-> "employeeSharePercent", arg |-> a, out |-> << >>] : a \in ShareArgs}

Idle ==
    UNCHANGED <<enumVals, schema, status, evals, snaps, items, gens, nextSnapId,
                nreq, pc, req, tx, resp, h, comps, report,
                cancel_reason, updates, has_unread_update, detail>>

\* the truncation applied to the argument, then to its own result
Truncate ==
    /\ calc.fn = "_trunc_1_decimal"
    /\ Len(calc.out) < 2
    /\ calc' = [calc EXCEPT !.out = Append(@,
                   _trunc_1_decimal_value(IF Len(calc.out) = 0 THEN calc.arg
                                          ELSE calc.out[Len(calc.out)]))]
    /\ Idle

ComputeFinalScore ==
    /\ calc.fn = "computeFinalScore"
    /\ Len(calc.out) = 0
    /\ calc' = [calc EXCEPT !.out = <<computeFinalScore(calc.arg)>>]
    /\ Idle

LatestEvaluation ==
    /\ calc.fn = "latestEvaluation"
    /\ Len(calc.out) = 0
    /\ calc' = [calc EXCEPT !.out = <<latestEvaluation(calc.arg)>>]
    /\ Idle

EmployeeSharePercent ==
    /\ calc.fn = "employeeSharePercent"
    /\ Len(calc.out) = 0
    /\ calc' = [calc EXCEPT !.out =
                   <<employeeSharePercent(calc.arg.allocatedSum, calc.arg.projectSum)>>]
    /\ Idle

CalcNext ==
    \/ Truncate
    \/ ComputeFinalScore
    \/ LatestEvaluation
    \/ EmployeeSharePercent

CalcSpec == CalcInit /\ [][CalcNext]_vars

\* ---------------------------------------------------------------- claims
ActiveOf(S, p) == {r \in S : r.project_id = p /\ r.is_active}

Orphans(I, S) == {i \in I : ~\E r \in S : r.id = i.snapshot_id}

RECURSIVE SumItems(_)
SumItems(I) ==
    IF I = {} THEN 0
    ELSE LET i == CHOOSE x \in I : TRUE
         IN  i.converted_score + SumItems(I \ {i})

ItemsUnder(I, sid) == {i \in I : i.snapshot_id = sid}

\* C1: in every reachable state each project has at most one completion
\* snapshot with is_active = true, failing snapshot statements included.
C1_AtMostOneActive ==
    \A p \in Projects : Cardinality(ActiveOf(snaps, p)) <= 1

\* C2: when two complete_project requests for the same project ran with
\* their deactivate-then-insert steps interleaved and both have committed,
\* they have not both left an active snapshot: the project never has more than one active snapshot,
\* and has exactly one when no snapshot statement of either request failed.
C2_ConcurrentCompletionsOneActive ==
    \A s, t \in Sessions :
        ( /\ s # t
          /\ pc[s] = "done" /\ pc[t] = "done"
          /\ req[s].op = "complete" /\ req[t].op = "complete"
          /\ req[s].pid = req[t].pid
          /\ resp[s] = "ok" /\ resp[t] = "ok"
          /\ h[t].interleaved )
        => /\ Cardinality(ActiveOf(snaps, req[s].pid)) <= 1
           /\ (schema.snapTables /\ ~h[s].snapFail /\ ~h[t].snapFail)
                => Cardinality(ActiveOf(snaps, req[s].pid)) = 1

\* C3: when a snapshot bookkeeping step failed during an authorized
\* complete_project, the completed status and the evaluation rows of the
\* request are committed when the request returns.
C3_StatusCommittedDespiteSnapshotFailure ==
    \A s \in Sessions :
        (pc[s] = "done" /\ req[s].op = "complete" /\ resp[s] = "ok" /\ h[s].snapFail)
        => /\ status[req[s].pid] = req[s].new_status
           /\ _is_completed_status(status[req[s].pid])
           /\ {e \in evals : e.project_id = req[s].pid} = EvalRows(req[s])

\* C4: in complete_project and in reopen_project the status change is
\* committed before the first snapshot or cleanup write is attempted.
C4_StatusCommittedBeforeBookkeeping ==
    \A s \in Sessions :
        pc[s] \in {"c_deact", "c_insert", "c_items", "r_evals", "r_items", "r_snaps"}
        => h[s].statusCommitted

\* C5: right after createSnapshot returned a snapshot id, that snapshot is
\* the project's only active one and the snapshot that was active before
\* still exists with is_active = false.
C5_CreatedIsOnlyActive ==
    \A s \in Sessions :
        (pc[s] = "c_generic" /\ h[s].ret > 0)
        => /\ {r.id : r \in ActiveOf(ViewSnaps(s), req[s].pid)} = {h[s].ret}
           /\ \A r \in h[s].preSnaps :
                 r.is_active => \E q \in ViewSnaps(s) : q.id = r.id /\ ~q.is_active

C7_AllOrNothing ==
    \A s \in Sessions :
        (pc[s] = "c_generic" /\ h[s].called /\ h[s].ret = 0)
        => /\ SnapsOf(ViewSnaps(s), req[s].pid) = h[s].preSnaps
           /\ ItemsOf(ViewItems(s), ViewSnaps(s), req[s].pid) = h[s].preItems
           /\ tx[s].snapIns = {} /\ tx[s].snapDeact = {} /\ tx[s].itemIns = {}

C7_Witness ==
    \E s \in Sessions :
        /\ pc[s] = "c_generic" /\ h[s].ret = 0 /\ h[s].snapFail
        /\ nextSnapId > 2
        /\ \E r \in h[s].preSnaps : r.is_active /\ r \in ViewSnaps(s)
        /\ h[s].preItems # {}

\* C8: a failed snapshot write in complete_project or a failed purge in
\* reopen_project is not surfaced: the request still answers {"ok": true}.
C8_SnapshotFailureNotSurfaced ==
    \A s \in Sessions :
        (pc[s] = "done" /\ h[s].snapFail) => resp[s] = "ok"

C8_Witness ==
    \E s \in Sessions :
        /\ pc[s] = "done" /\ h[s].snapFail /\ resp[s] = "ok"
        /\ req[s].op = "complete" /\ h[s].ret = 0

C11_AllocatedScoreIsShareOfP ==
    \A r \in snaps : \A i \in ItemsUnder(items, r.id) :
        i.converted_score = deriveAllocatedScore(r.final_project_score, i.user_eval_score)

\* C12: every score complete_project has stored, as an evaluation row or as
\* a snapshot item, lies between 0 and 10, and a completion request with a
\* participant score outside that range has stored nothing.
C12_StoredScoresWithinScale ==
    /\ \A e \in evals : e.score >= 0 /\ e.score <= 1000
    /\ \A i \in items : i.user_eval_score >= 0 /\ i.user_eval_score <= 1000
    /\ \A s \in Sessions :
          ( /\ pc[s] = "done" /\ req[s].op = "complete"
            /\ \E k \in DOMAIN req[s].participants :
                  req[s].participants[k].score < 0 \/ req[s].participants[k].score > 1000 )
          => /\ resp[s] # "ok"
             /\ EvalRows(req[s]) \cap evals = {}

\* C13: _trunc_1_decimal truncates toward zero: the result has one decimal,
\* lies between 0 and x and differs from x by less than 0.1, so it is
\* floor(10x)/10 for x >= 0 and ceil(10x)/10 for x < 0; 12.37 gives 12.3
\* and -12.37 gives -12.3.
C13_TruncatesTowardZero ==
    (calc.fn = "_trunc_1_decimal" /\ calc.arg.kind = "num" /\ Len(calc.out) >= 1)
    => LET x == calc.arg.v
           y == calc.out[1].v
       IN  /\ calc.out[1].kind = "num"
           /\ y % 10 = 0
           /\ IF x >= 0 THEN 0 <= y /\ y <= x /\ x - y < 10
                         ELSE x <= y /\ y <= 0 /\ y - x < 10
           /\ (x = 1237 => y = 1230)
           /\ (x = -1237 => y = -1230)

C13_Witness ==
    /\ calc.fn = "_trunc_1_decimal" /\ Len(calc.out) >= 1
    /\ calc.arg = Num(-1237) /\ calc.out[1] = Num(-1230)

\* C14: the profit_rate update_project_admin_info has stored is the
\* submitted value truncated to one decimal toward zero, for negative
\* values as for positive ones.
C14_ProfitRateTruncatedTowardZero ==
    \A s \in Sessions :
        ( /\ pc[s] = "done" /\ req[s].op = "admin_info" /\ resp[s] = "ok"
          /\ schema.scoreCols /\ req[s].payload["profit_rate"].kind = "num" )
        => comps[req[s].pid]["profit_rate"]
             = _trunc_1_decimal_value(req[s].payload["profit_rate"])

\* C15: _trunc_1_decimal is idempotent: applied to its own result for a
\* finite number it returns that result.
C15_TruncationIdempotent ==
    ( /\ calc.fn = "_trunc_1_decimal" /\ calc.arg.kind \in {"num", "numstr"}
      /\ Len(calc.out) = 2 )
    => calc.out[2] = calc.out[1]

C15_Witness ==
    /\ calc.fn = "_trunc_1_decimal" /\ calc.arg.kind = "num" /\ Len(calc.out) = 2
    /\ calc.arg.v < 0 /\ calc.out[1].v # calc.arg.v /\ calc.out[1].v # 0

\* C16: _trunc_1_decimal does not raise and returns 0 for every argument
\* that is not a number.
C16_NonNumericGivesZero ==
    ( /\ calc.fn = "_trunc_1_decimal" /\ calc.arg.kind \in {"text", "none"}
      /\ Len(calc.out) >= 1 )
    => calc.out[1] = Num(0)

\* C17: the row of a project in a summary is tagged SNAPSHOT exactly when
\* the project has an active snapshot at that time, and then shows the
\* final_project_score of the project's active snapshot whatever the score
\* columns hold by now; it is tagged LIVE otherwise.
C17_SnapshotRowShowsActiveSnapshot ==
    report.at = nreq
    => /\ (report.score_source = "SNAPSHOT") <=> (ActiveOf(snaps, report.pid) # {})
       /\ (report.score_source = "LIVE") <=> (ActiveOf(snaps, report.pid) = {})
       /\ report.score_source = "SNAPSHOT"
            => \A r \in ActiveOf(snaps, report.pid) :
                  report.project_final_score = r.final_project_score

\* C18: computeFinalScore is the sum of the nine components truncated to
\* one decimal, an absent or invalid component counting as 0 and
\* contractAmount not entering the sum; the worked example gives 10.2.
C18_FinalScoreIsTruncatedSumOfNine ==
    (calc.fn = "computeFinalScore" /\ Len(calc.out) = 1)
    => LET c == calc.arg
           v(n) == IF c[n].kind = "num" THEN c[n].v ELSE 0
           sum == v("salesScore") + v("projectPeriodDays") + v("difficulty")
                    + v("progressStep") + v("workSpeed") + v("internalScore")
                    + v("externalScore") + v("participantCount") + v("profitRateScore")
           y == calc.out[1]
       IN  /\ y % 10 = 0
           /\ IF sum >= 0 THEN 0 <= y /\ y <= sum /\ sum - y < 10
                           ELSE sum <= y /\ y <= 0 /\ y - sum < 10
           /\ (c = ExampleComponents => y = 1020)

C18_Witness ==
    /\ calc.fn = "computeFinalScore" /\ Len(calc.out) = 1
    /\ calc.arg["contractAmount"].kind = "num"
    /\ calc.arg["difficulty"] = None /\ calc.arg["workSpeed"] = Text
    /\ calc.arg["salesScore"] = Num(126) /\ calc.arg["profitRateScore"] = Num(126)
    /\ calc.out[1] = 250

\* C19: of several evaluations of an employee for a project the one with
\* the latest timestamp is used, among equal timestamps the one with the
\* highest identifier, in whatever order the evaluations are read.
C19_LatestEvaluationUsed ==
    (calc.fn = "latestEvaluation" /\ Len(calc.out) = 1)
    => LET used == calc.out[1] IN
       /\ used \in Range(calc.arg)
       /\ \A e \in Range(calc.arg) :
             e.ts < used.ts \/ (e.ts = used.ts /\ e.id <= used.id)

C19_Witness ==
    /\ calc.fn = "latestEvaluation" /\ Len(calc.out) = 1 /\ Len(calc.arg) = 3
    /\ calc.out[1] = calc.arg[1]
    /\ calc.arg[2].ts = calc.arg[1].ts /\ calc.arg[3].ts < calc.arg[1].ts

\* C20 as stated: employeeSharePercent lies in [0, 100] whenever the
\* allocated sum does not exceed the project score sum, and is 0 whenever
\* the project score sum is not positive.
C20_ShareWithinRange ==
    (calc.fn = "employeeSharePercent" /\ Len(calc.out) = 1)
    => /\ calc.arg.allocatedSum <= calc.arg.projectSum
            => 0 <= calc.out[1] /\ calc.out[1] <= 10000
       /\ calc.arg.projectSum <= 0 => calc.out[1] = 0

\* C20 amended: employeeSharePercent lies in [0, 100] whenever the
\* allocated sum is not negative and does not exceed the project score sum,
\* and is 0 whenever the project score sum is not positive.
C20_ShareWithinRangeNonNegative ==
    (calc.fn = "employeeSharePercent" /\ Len(calc.out) = 1)
    => /\ (0 <= calc.arg.allocatedSum /\ calc.arg.allocatedSum <= calc.arg.projectSum)
            => 0 <= calc.out[1] /\ calc.out[1] <= 10000
       /\ calc.arg.projectSum <= 0 => calc.out[1] = 0

C20_Witness ==
    /\ calc.fn = "employeeSharePercent" /\ Len(calc.out) = 1
    /\ calc.arg.allocatedSum = 10 /\ calc.arg.projectSum = 30
    /\ calc.out[1] = 3330

\* a caller who is neither an administrator nor the creator of the project
Stranger(r) ==
    /\ r.op \in {"complete", "cancel", "reopen"}
    /\ ProjectCompletePayload(r.participants)
    /\ RoleOf(r.user) # ROLE_ADMIN_ID
    /\ CreatedBy(r.pid) # r.user

\* C21: a complete, cancel or reopen request of a caller who is neither an
\* administrator nor the project's creator is answered 403 on arrival and
\* changes nothing: status, evaluation rows, snapshots and snapshot items
\* are as before the request, and the handler has no pending write.
C21_ForbiddenChangesNothing ==
    /\ [](\A s \in Sessions :
            Stranger(req[s]) => /\ resp[s] = "403" /\ pc[s] = "done"
                                /\ tx[s] = EmptyTx)
    /\ [][(nreq' = nreq + 1 /\ \E s \in Sessions : req'[s] # NoReq /\ Stranger(req'[s])
                                                   /\ pc'[s] = "done" /\ h'[s] = EmptyH)
            => /\ status' = status /\ evals' = evals
               /\ snaps' = snaps /\ items' = items /\ gens' = gens]_vars

\* a stranger's completion request for a project that has a snapshot with
\* items was answered 403
C21_Witness ==
    /\ pc[1] = "done" /\ resp[1] = "403" /\ req[1].op = "complete"
    /\ Stranger(req[1])
    /\ \E r \in snaps : r.project_id = req[1].pid /\ ItemsUnder(items, r.id) # {}

\* C22: every project that has an active completion snapshot exists and is
\* in a completed status, in every state reachable by complete, cancel,
\* reopen and delete requests.
C22_ActiveSnapshotOnlyIfCompleted ==
    \A r \in snaps :
        r.is_active => /\ status[r.project_id] # NoProject
                       /\ _is_completed_status(status[r.project_id])

\* C23: after a complete_project of an authorized caller has committed its
\* status UPDATE, the stored status of the project is one that
\* _is_completed_status accepts, whatever labels the enum project_status
\* has.
C23_CompletedStatusIsRecognised ==
    \A s \in Sessions :
        ( /\ pc[s] = "done" /\ req[s].op = "complete" /\ resp[s] = "ok"
          /\ h[s].statusCommitted /\ status[req[s].pid] # NoProject )
        => _is_completed_status(status[req[s].pid])

\* the last request was a get_project_detail that found the project
DetailServed == detail.code = "ok" /\ detail.at = nreq

Rescorings(E) ==
    { {[e EXCEPT !.score = g[e]] : e \in E} : g \in [E -> ViewScores] }

\* C28: to a viewer who is neither an administrator nor the creator of the
\* project every participant score in the response of get_project_detail is
\* null, and the response is the one the viewer would get from any database
\* that differs only in the stored scores.
C28_ScoresHiddenFromOthers ==
    ( /\ DetailServed
      /\ RoleOf(detail.viewer) # ROLE_ADMIN_ID
      /\ CreatedBy(detail.pid) # detail.viewer )
    => /\ \A i \in DOMAIN detail.participant_scores :
              detail.participant_scores[i].score = None
       /\ \A E \in Rescorings(evals) :
              [at |-> detail.at] @@ ProjectDetailOut(detail.viewer, detail.pid, E) = detail

\* a viewer who is neither was shown the participants of a completed
\* project that has a non-zero score stored
C28_Witness ==
    /\ DetailServed /\ detail.viewer = 3
    /\ _is_completed_status(status[detail.pid])
    /\ detail.participant_count >= 1
    /\ \E e \in evals : e.project_id = detail.pid /\ e.score = 725

\* a complete_project that answered ok with no statement of it failing
CompletedCleanly(s) ==
    /\ pc[s] = "done" /\ req[s].op = "complete" /\ resp[s] = "ok"
    /\ ~h[s].snapFail /\ ~h[s].raised /\ ~h[s].interleaved

\* employee and score of the items of snapshot sid in the order of insertion
ItemSeq(sid) ==
    LET I == ItemsUnder(items, sid) IN
    [i \in 1..Cardinality(I) |->
        LET it == CHOOSE x \in I : x.idx = i
        IN [employee_id |-> it.user_id, score |-> it.user_eval_score]]

\* the project's evaluation rows are the rows of this request and the
\* snapshot it created is the project's active one
EvaluationsReplaced(s) ==
    /\ {e \in evals : e.project_id = req[s].pid} = EvalRows(req[s])
    /\ schema.snapTables
         => /\ h[s].ret > 0
            /\ {r.id : r \in ActiveOf(snaps, req[s].pid)} = {h[s].ret}

\* C25 as stated: after a complete_project that succeeded with no failure
\* the project's evaluation rows are exactly the participants of the request
\* and the items of the new active snapshot name the same employees with
\* the same scores.
C25_ItemsNameTheParticipants ==
    \A s \in Sessions :
        CompletedCleanly(s)
        => /\ EvaluationsReplaced(s)
           /\ schema.snapTables => ItemSeq(h[s].ret) = req[s].participants

\* C25 amended: ... and the items of the new active snapshot name the
\* participants whose employee_id is positive, with the same scores; a
\* participant with employee_id 0 or less has an evaluation row and no item.
C25_ItemsNameThePositiveParticipants ==
    \A s \in Sessions :
        CompletedCleanly(s)
        => /\ EvaluationsReplaced(s)
           /\ schema.snapTables
                => ItemSeq(h[s].ret) =
                       SelectSeq(req[s].participants, LAMBDA q : q.employee_id > 0)

\* a second completion of a project, with three participants one of whom
\* has employee_id 0, went through with no failure
C25_Witness ==
    /\ CompletedCleanly(1) /\ schema.snapTables /\ req[1].was_completed
    /\ Len(req[1].participants) = 3
    /\ \E e \in evals : e.project_id = req[1].pid /\ e.user_id = 0
    /\ Len(ItemSeq(h[1].ret)) = 2
    /\ h[1].preSnaps # {}

\* C26: when the tables of the completion score snapshot are absent,
\* createSnapshot writes nothing and returns none, and complete_project
\* still commits the status change and the evaluation rows and answers ok.
C26_AbsentTablesDoNotBlockCompletion ==
    \A s \in Sessions :
        ( /\ pc[s] = "done" /\ req[s].op = "complete"
          /\ h[s].called /\ ~h[s].raised
          /\ ~schema.snapTables /\ status[req[s].pid] # NoProject )
        => /\ h[s].ret = 0
           /\ SnapsOf(snaps, req[s].pid) = h[s].preSnaps
           /\ ItemsOf(items, snaps, req[s].pid) = h[s].preItems
           /\ resp[s] = "ok"
           /\ status[req[s].pid] = req[s].new_status
           /\ {e \in evals : e.project_id = req[s].pid} = EvalRows(req[s])

\* C27: after a cancel_project with reason r has committed,
\* get_project_detail reports cancel_reason = r trimmed, and after a later
\* reopen_project it reports no cancel reason, whether the reason is kept in
\* projects.cancel_reason or in a reason entry of project_updates.
C27_CancelReasonShownUntilReopen ==
    ( /\ DetailServed /\ detail.pid = req[1].pid
      /\ pc[1] = "done" /\ resp[1] = "ok" /\ h[1].statusCommitted )
    => /\ req[1].op = "cancel" => detail.cancel_reason = strip(req[1].reason)
       /\ req[1].op = "reopen" => detail.cancel_reason = None

\* the request session s has answered
Answered(s, op, code) == pc[s] = "done" /\ req[s].op = op /\ resp[s] = code

\* C29: has_unread_update of a project is true after every create or edit
\* of a progress update that answered ok and stays true until an
\* admin_ack_project of an administrator answers ok; that request leaves the
\* flag false and its marker as the project's latest update; an
\* admin_ack_project that failed leaves the flag as it was.
C29_UnreadUntilAcknowledged ==
    /\ [](\A s \in Sessions :
            /\ (Answered(s, "create_update", "ok") \/ Answered(s, "edit_update", "ok"))
                 => has_unread_update[req[s].pid]
            /\ Answered(s, "admin_ack", "ok")
                 => /\ ~has_unread_update[req[s].pid]
                    /\ updates[req[s].pid] # << >>
                    /\ updates[req[s].pid][Len(updates[req[s].pid])].prefix = AckMarker
            /\ Answered(s, "admin_ack", "500")
                 => has_unread_update[req[s].pid] = req[s].was_unread)
    /\ [][\A p \in Projects :
            (has_unread_update[p] /\ ~has_unread_update'[p])
            => \E s \in Sessions :
                  /\ req[s].op = "admin_ack" /\ req[s].pid = p
                  /\ RoleOf(req[s].user) = ROLE_ADMIN_ID
                  /\ pc[s] = "k_commit" /\ resp'[s] = "ok"]_vars

====
